---------------------------- MODULE Spec2Model ----------------------------
(***************************************************************************)
(* The image ingestion pipeline of src/image-utils.ts: the three entry     *)
(* points extractImageFromFile, extractImageFromUrl and                    *)
(* extractImageFromBase64, the helper compressImage and the module-level   *)
(* configuration.  A call is a record of the function's locals; every      *)
(* stage of the function is an operator from that record to its successor, *)
(* and an action applies one stage to one call.                            *)
(*                                                                         *)
(* The collaborators (file system, HTTP client, image codec) are not part  *)
(* of the repository.  The file system and the remote server are inputs of *)
(* a call; the codec is a deterministic function of the bytes it is given  *)
(* (a buffer is a one-byte format tag, big-endian width and height, and a  *)
(* payload), except that each awaited codec operation may also reject.     *)
(***************************************************************************)
EXTENDS Integers, Sequences, FiniteSets, TLC

VARIABLES
  MAX_IMAGE_SIZE,   \* image-utils.ts:7, read once at module load
  ALLOWED_DOMAINS,  \* image-utils.ts:8, read once at module load
  call              \* call id -> the locals of that invocation

vars == <<MAX_IMAGE_SIZE, ALLOWED_DOMAINS, call>>

-----------------------------------------------------------------------------
(* Bounds of the model *)

\* longest payload (bytes after the 5-byte header) of an input image
MaxPayloadLen == 2

-----------------------------------------------------------------------------
(* Program constants *)

DEFAULT_MAX_WIDTH == 512
DEFAULT_MAX_HEIGHT == 512

Min(a, b) == IF a < b THEN a ELSE b
Max(a, b) == IF a > b THEN a ELSE b

\* F(v), with v computed once
With(v, F(_)) == CHOOSE r \in {F(x) : x \in {v}} : TRUE

-----------------------------------------------------------------------------
(* Strings the code inspects character by character are sequences of       *)
(* one-character strings; Str folds such a sequence into a TLA+ string for *)
(* use inside a message.                                                   *)

RECURSIVE Str(_)
Str(cs) == IF cs = <<>> THEN "" ELSE Head(cs) \o Str(Tail(cs))

StartsWith(s, p) == Len(s) >= Len(p) /\ SubSeq(s, 1, Len(p)) = p
EndsWith(s, p) == Len(s) >= Len(p) /\ SubSeq(s, Len(s) - Len(p) + 1, Len(s)) = p

-----------------------------------------------------------------------------
(* Buffer.toString('base64') and Buffer.from(s, 'base64') of the runtime:  *)
(* a buffer is a sequence of bytes 0..255, a base64 string a sequence of   *)
(* characters.                                                             *)

Byte == 0..255

B64Alphabet ==
  <<
    "A", "B", "C", "D", "E", "F", "G", "H", "I", "J", "K", "L", "M", "N", "O", "P",
    "Q", "R", "S", "T", "U", "V", "W", "X", "Y", "Z", "a", "b", "c", "d", "e", "f",
    "g", "h", "i", "j", "k", "l", "m", "n", "o", "p", "q", "r", "s", "t", "u", "v",
    "w", "x", "y", "z", "0", "1", "2", "3", "4", "5", "6", "7", "8", "9", "+", "/"
  >>

B64Char(n) == B64Alphabet[n + 1]
IsB64Char(ch) == \E i \in 1..64 : B64Alphabet[i] = ch
B64Index(ch) == (CHOOSE i \in 1..64 : B64Alphabet[i] = ch) - 1

\* imageBuffer.toString('base64'): three bytes to four characters, '=' padding
RECURSIVE ToBase64(_)
ToBase64(buf) ==
  IF Len(buf) = 0 THEN <<>>
  ELSE IF Len(buf) = 1 THEN
    LET n == buf[1] * 65536
    IN  <<B64Char(n \div 262144), B64Char((n \div 4096) % 64), "=", "=">>
  ELSE IF Len(buf) = 2 THEN
    LET n == buf[1] * 65536 + buf[2] * 256
    IN  <<B64Char(n \div 262144), B64Char((n \div 4096) % 64),
          B64Char((n \div 64) % 64), "=">>
  ELSE
    LET n == buf[1] * 65536 + buf[2] * 256 + buf[3]
    IN  <<B64Char(n \div 262144), B64Char((n \div 4096) % 64),
          B64Char((n \div 64) % 64), B64Char(n % 64)>>
        \o With(SubSeq(buf, 4, Len(buf)), ToBase64)

\* the sextets of a base64 string: decoding stops at the first '=' and skips
\* every character that is not of the alphabet (the decoder never throws)
RECURSIVE B64Sextets(_)
B64Sextets(s) ==
  IF s = <<>> \/ Head(s) = "=" THEN <<>>
  ELSE IF IsB64Char(Head(s)) THEN <<B64Index(Head(s))>> \o B64Sextets(Tail(s))
  ELSE B64Sextets(Tail(s))

RECURSIVE B64Bytes(_)
B64Bytes(q) ==
  IF Len(q) < 2 THEN <<>>
  ELSE IF Len(q) = 2 THEN <<(q[1] * 4 + q[2] \div 16) % 256>>
  ELSE IF Len(q) = 3 THEN
    <<(q[1] * 4 + q[2] \div 16) % 256, (q[2] * 16 + q[3] \div 4) % 256>>
  ELSE
    <<(q[1] * 4 + q[2] \div 16) % 256, (q[2] * 16 + q[3] \div 4) % 256,
      (q[3] * 64 + q[4]) % 256>> \o With(SubSeq(q, 5, Len(q)), B64Bytes)

\* Buffer.from(base64, 'base64'); the sextets are computed once
FromBase64(s) == With(B64Sextets(s), B64Bytes)

-----------------------------------------------------------------------------
(* The image codec (sharp) as the pipeline sees it.  A buffer the codec    *)
(* can read is a format tag, the width and the height as two big-endian    *)
(* bytes each, and a payload.  A width or height of 0 stands for a probe   *)
(* that reports no such dimension.                                         *)

CodecFormats == <<"jpeg", "png", "webp", "gif", "svg", "avif", "tiff", "heif">>

FormatTag(fmt) == CHOOSE t \in 1..Len(CodecFormats) : CodecFormats[t] = fmt

Parseable(buf) == Len(buf) >= 5 /\ buf[1] \in 1..Len(CodecFormats)

ImgFormat(buf) == CodecFormats[buf[1]]
ImgWidth(buf) == buf[2] * 256 + buf[3]
ImgHeight(buf) == buf[4] * 256 + buf[5]
ImgPayload(buf) == SubSeq(buf, 6, Len(buf))

MakeImage(fmt, w, h, payload) ==
  <<FormatTag(fmt), w \div 256, w % 256, h \div 256, h % 256>> \o payload

\* sharp(buffer).metadata(), when it resolves
SharpMetadata(buf) ==
  [format |-> ImgFormat(buf), width |-> ImgWidth(buf), height |-> ImgHeight(buf)]

\* toBuffer() with no output format chosen keeps the input's format, except
\* that SVG input is written as PNG
OutputFormat(fmt) == IF fmt = "svg" THEN "png" ELSE fmt

\* round(a / b) for positive a, b, never below 1
RoundDiv(a, b) == Max(1, (2 * a + b) \div (2 * b))

\* FitInside for fit: 'fill': the image is stretched to the box
FitInsideFill(w, h, tw, th) == <<Min(w, tw), Min(h, th)>>

\* the dimensions of .resize({width: tw, height: th, fit: 'inside',
\* withoutEnlargement: true}) applied to a w x h image
FitInside(w, h, tw, th) ==
  IF w <= tw /\ h <= th THEN <<w, h>>
  ELSE IF w * th > h * tw
    THEN <<tw, RoundDiv(h * tw, w)>>
    ELSE <<RoundDiv(w * th, h), th>>

\* sharp(buffer).resize({...}).toBuffer(), when it resolves
SharpResize(buf, tw, th) ==
  LET d == FitInside(ImgWidth(buf), ImgHeight(buf), tw, th)
  IN  MakeImage(OutputFormat(ImgFormat(buf)), d[1], d[2], ImgPayload(buf))

\* a lossy re-encode keeps the pixels' dimensions and shortens the payload
Reencoded(payload) == SubSeq(payload, 1, Len(payload) \div 2)

\* sharp(buffer).<codec>(options).toBuffer(), when it resolves
SharpEncode(buf, codec) ==
  MakeImage(codec, ImgWidth(buf), ImgHeight(buf), Reencoded(ImgPayload(buf)))

\* sharp(buffer).toBuffer(), when it resolves
SharpToBuffer(buf) ==
  MakeImage(OutputFormat(ImgFormat(buf)), ImgWidth(buf), ImgHeight(buf),
            ImgPayload(buf))

\* the message of the error a codec operation rejects with
CodecError(buf) ==
  IF Parseable(buf) THEN "Input buffer has corrupt header"
  ELSE "Input buffer contains unsupported image format"

-----------------------------------------------------------------------------
(* compressImage, image-utils.ts:78-108 *)

LowerCase == <<"a", "b", "c", "d", "e", "f", "g", "h", "i", "j", "k", "l", "m",
               "n", "o", "p", "q", "r", "s", "t", "u", "v", "w", "x", "y", "z">>
UpperCase == <<"A", "B", "C", "D", "E", "F", "G", "H", "I", "J", "K", "L", "M",
               "N", "O", "P", "Q", "R", "S", "T", "U", "V", "W", "X", "Y", "Z">>

ToLowerChar(ch) ==
  IF \E i \in 1..26 : UpperCase[i] = ch
  THEN LowerCase[CHOOSE i \in 1..26 : UpperCase[i] = ch]
  ELSE ch

\* String.prototype.toLowerCase on a character sequence
ToLowerCase(cs) == [i \in 1..Len(cs) |-> ToLowerChar(cs[i])]

\* the keys of COMPRESSION_OPTIONS with their options (0 stands for an option
\* the table does not set)
COMPRESSION_OPTIONS ==
  [jpeg |-> [quality |-> 80, compressionLevel |-> 0],
   jpg  |-> [quality |-> 80, compressionLevel |-> 0],
   png  |-> [quality |-> 80, compressionLevel |-> 9],
   webp |-> [quality |-> 80, compressionLevel |-> 0],
   gif  |-> [quality |-> 0, compressionLevel |-> 0],
   svg  |-> [quality |-> 0, compressionLevel |-> 0],
   avif |-> [quality |-> 80, compressionLevel |-> 0],
   tiff |-> [quality |-> 80, compressionLevel |-> 0]]

\* the encoder the switch of compressImage selects for a format string:
\* the sharp method called ("toBuffer" when none is) and the options passed
CompressionCodec(format) ==
  IF format \in DOMAIN COMPRESSION_OPTIONS THEN
    CASE format \in {"jpeg", "jpg"} -> [method |-> "jpeg", options |-> COMPRESSION_OPTIONS[format]]
      [] format = "png"  -> [method |-> "png", options |-> COMPRESSION_OPTIONS[format]]
      [] format = "webp" -> [method |-> "webp", options |-> COMPRESSION_OPTIONS[format]]
      [] format = "avif" -> [method |-> "avif", options |-> COMPRESSION_OPTIONS[format]]
      [] format = "tiff" -> [method |-> "tiff", options |-> COMPRESSION_OPTIONS[format]]
      [] format \in {"gif", "svg"} -> [method |-> "toBuffer", options |-> COMPRESSION_OPTIONS[format]]
  ELSE [method |-> "jpeg", options |-> COMPRESSION_OPTIONS.jpeg]

\* the buffer compressImage resolves with
compressImage(imageBuffer, formatStr) ==
  With(CompressionCodec(formatStr), LAMBDA codec :
    IF codec.method = "toBuffer" THEN SharpToBuffer(imageBuffer)
    ELSE SharpEncode(imageBuffer, codec.method))

-----------------------------------------------------------------------------
(* The configuration, image-utils.ts:6-8.  An environment variable is      *)
(* unset or holds a character sequence.                                    *)

Unset == [set |-> FALSE, value |-> <<>>]
Setting(cs) == [set |-> TRUE, value |-> cs]

\* process.env.X || d : an unset or empty variable is falsy
OrDefault(env, d) == IF env.set /\ env.value # <<>> THEN env.value ELSE d

Digits == <<"0", "1", "2", "3", "4", "5", "6", "7", "8", "9">>
IsDigit(ch) == \E i \in 1..10 : Digits[i] = ch
DigitValue(ch) == (CHOOSE i \in 1..10 : Digits[i] = ch) - 1

RECURSIVE SkipSpaces(_)
SkipSpaces(cs) == IF cs # <<>> /\ Head(cs) = " " THEN SkipSpaces(Tail(cs)) ELSE cs

\* the value of the longest prefix of digits, continuing from acc
RECURSIVE DigitsValue(_, _)
DigitsValue(cs, acc) ==
  IF cs = <<>> \/ ~IsDigit(Head(cs)) THEN acc
  ELSE DigitsValue(Tail(cs), acc * 10 + DigitValue(Head(cs)))

NaN == [nan |-> TRUE, n |-> 0]
Num(n) == [nan |-> FALSE, n |-> n]

\* parseInt(cs, 10): leading blanks, an optional sign, then the digits up to
\* the first character that is none; NaN when there is no digit
ParseInt(cs) ==
  LET t == SkipSpaces(cs)
      signed == t # <<>> /\ Head(t) \in {"+", "-"}
      d == IF signed THEN Tail(t) ELSE t
  IN  IF d = <<>> \/ ~IsDigit(Head(d)) THEN NaN
      ELSE IF signed /\ Head(t) = "-" THEN Num(0 - DigitsValue(d, 0))
      ELSE Num(DigitsValue(d, 0))

\* a > b for an integer a and a parsed number b: false when b is NaN
GreaterThan(a, b) == ~b.nan /\ a > b.n

\* the text of a parsed number inside a template string
NumberText(b) == IF b.nan THEN "NaN" ELSE ToString(b.n)

\* String.prototype.split(sep) for a one-character separator
RECURSIVE Split(_, _)
Split(cs, sep) ==
  IF \E i \in 1..Len(cs) : cs[i] = sep THEN
    LET i == CHOOSE k \in 1..Len(cs) : cs[k] = sep /\ \A j \in 1..(k - 1) : cs[j] # sep
    IN  <<SubSeq(cs, 1, i - 1)>> \o Split(SubSeq(cs, i + 1, Len(cs)), sep)
  ELSE <<cs>>

\* line 7
ReadMaxImageSize(env) ==
  ParseInt(OrDefault(env, <<"1", "0", "4", "8", "5", "7", "6", "0">>))

\* line 8
ReadAllowedDomains(env) ==
  IF env.set /\ env.value # <<>> THEN Split(env.value, ",") ELSE <<>>

-----------------------------------------------------------------------------
(* path.extname and the WHATWG URL parser, as far as the code uses them *)

LastIndexOf(cs, ch) ==
  IF \E i \in 1..Len(cs) : cs[i] = ch
  THEN CHOOSE i \in 1..Len(cs) : cs[i] = ch /\ \A j \in (i + 1)..Len(cs) : cs[j] # ch
  ELSE 0

FirstIndexIn(cs, chs) ==
  IF \E i \in 1..Len(cs) : cs[i] \in chs
  THEN CHOOSE i \in 1..Len(cs) : cs[i] \in chs /\ \A j \in 1..(i - 1) : cs[j] \notin chs
  ELSE 0

\* path.extname(p): from the last '.' of the last path segment to the end,
\* empty when there is none or when the segment starts with its only '.'
ExtName(p) ==
  LET base == SubSeq(p, LastIndexOf(p, "/") + 1, Len(p))
      dot == LastIndexOf(base, ".")
  IN  IF dot <= 1 THEN <<>> ELSE SubSeq(base, dot, Len(base))

HttpPrefix == <<"h", "t", "t", "p", ":", "/", "/">>
HttpsPrefix == <<"h", "t", "t", "p", "s", ":", "/", "/">>

\* the authority of a URL of the form scheme://...: what follows the "//"
\* up to the first '/', '?' or '#'
UrlAuthority(url) ==
  LET rest == SubSeq(url, FirstIndexIn(url, {":"}) + 3, Len(url))
      stop == FirstIndexIn(rest, {"/", "?", "#"})
  IN  IF stop = 0 THEN rest ELSE SubSeq(rest, 1, stop - 1)

\* an authority without its user info, and without its port
StripUserInfo(auth) == SubSeq(auth, LastIndexOf(auth, "@") + 1, Len(auth))

StripPort(hostport) ==
  LET colon == FirstIndexIn(hostport, {":"})
  IN  IF colon = 0 THEN hostport ELSE SubSeq(hostport, 1, colon - 1)

\* new URL(url).hostname: the authority without user info and port, in lower
\* case; empty when the parser throws (no host).  Each part is computed once.
UrlHostname(url) ==
  With(UrlAuthority(url), LAMBDA auth :
    With(StripUserInfo(auth), LAMBDA hostport :
      With(StripPort(hostport), ToLowerCase)))

-----------------------------------------------------------------------------
(* A call: the parameters it was given, the part of the outside world it   *)
(* reads (the file at file_path, or the server's answer to a GET of url),  *)
(* the locals of the function, and a record of what it has done so far.    *)

NoMetadata == [format |-> "", width |-> 0, height |-> 0]
NoResponse == [content |-> <<>>]

IdleCall ==
  [pc |-> "idle", kind |-> "none",
   file_path |-> <<>>, url |-> <<>>, base64 |-> <<>>, mime_type |-> <<>>,
   resize |-> TRUE, max_width |-> 0, max_height |-> 0,
   exists |-> FALSE, ioFails |-> FALSE, data |-> <<>>, contentType |-> "",
   imageBuffer |-> <<>>, metadata |-> NoMetadata, format |-> "", mimeType |-> "",
   response |-> NoResponse,
   \* history, read by the properties only
   stages |-> <<>>, acquired |-> <<>>, probes |-> <<>>, requests |-> 0,
   resized |-> FALSE, compression |-> "none", beforeCompress |-> <<>>,
   caught |-> FALSE, reads |-> 0, domainChecks |-> 0, outcomes |-> <<>>]

\* the call as it is when the function is entered with these parameters
NewCall(in) ==
  [IdleCall EXCEPT
     !.pc = "acquire", !.kind = in.kind,
     !.file_path = in.file_path, !.url = in.url, !.base64 = in.base64,
     !.mime_type = in.mime_type, !.resize = in.resize,
     !.max_width = in.max_width, !.max_height = in.max_height,
     !.exists = in.exists, !.ioFails = in.ioFails, !.data = in.data,
     !.contentType = in.contentType]

-----------------------------------------------------------------------------
(* Responses *)

TextItem(text) == [type |-> "text", text |-> text]
ImageItem(data, mimeType) == [type |-> "image", data |-> data, mimeType |-> mimeType]

\* ErrorResponse without the flag
ErrorResponseUnflagged(text) == [content |-> <<TextItem(text)>>]

\* { content: [{ type: "text", text }], isError: true }
ErrorResponse(text) == [content |-> <<TextItem(text)>>, isError |-> TRUE]

\* JSON.stringify of { width, height, format, size }: the members in order
MetadataJson(metadata, size) ==
  << <<"width", metadata.width>>, <<"height", metadata.height>>,
     <<"format", metadata.format>>, <<"size", size>> >>

\* the value of a member of such a JSON text
JsonMember(json, key) == (CHOOSE i \in 1..Len(json) : json[i][1] = key)
JsonValue(json, key) == json[JsonMember(json, key)][2]

\* SuccessResponse with the image item first
SuccessResponseSwapped(metadata, imageBuffer, base64, mimeType) ==
  [content |-> << ImageItem(base64, mimeType),
                  TextItem(MetadataJson(metadata, Len(imageBuffer))) >>]

\* SuccessResponse with the length of the base64 string as the size
SuccessResponseStringSize(metadata, imageBuffer, base64, mimeType) ==
  [content |-> << TextItem(MetadataJson(metadata, Len(base64))),
                  ImageItem(base64, mimeType) >>]

\* the success response of lines 202-219, 305-322 and 408-425
SuccessResponse(metadata, imageBuffer, base64, mimeType) ==
  [content |-> << TextItem(MetadataJson(metadata, Len(imageBuffer))),
                  ImageItem(base64, mimeType) >>]

IsError(r) == "isError" \in DOMAIN r /\ r.isError

Stage(s, name) == [s EXCEPT !.stages = Append(@, name)]

\* an awaited codec operation has settled: resolved (ok) or rejected
Settled(s, ok) == [s EXCEPT !.outcomes = Append(@, ok)]

\* a return statement
Return(s, r) == [s EXCEPT !.pc = "returned", !.response = r]

\* CatchAll without the try: the error leaves the entry point
Uncaught(s, message) == [s EXCEPT !.pc = "threw"]

\* the catch clause that ends each entry point (lines 220-226, 323-329,
\* 426-432): an error thrown anywhere in the body becomes a response
CatchAll(s, message) ==
  Return([s EXCEPT !.caught = TRUE], ErrorResponse("Error: " \o message))

SizeExceededText ==
  "Error: Image size exceeds maximum allowed size of "
    \o NumberText(MAX_IMAGE_SIZE) \o " bytes"

-----------------------------------------------------------------------------
(* The stages of a call.  Each operator is the code between two            *)
(* suspension points, applied to the call's locals s; ok says whether the  *)
(* awaited operation resolved.                                             *)

\* AcquireFile without the existsSync guard: the read of a missing file throws
AcquireFileUnchecked(s) ==
  LET t == [Stage(s, "Acquire") EXCEPT !.reads = @ + 1]
  IN  IF ~s.exists THEN
        CatchAll(t, "ENOENT: no such file or directory, open '"
                      \o Str(s.file_path) \o "'")
      ELSE IF s.ioFails THEN
        CatchAll(t, "EISDIR: illegal operation on a directory, read")
      ELSE [t EXCEPT !.pc = "validate", !.imageBuffer = s.data, !.acquired = s.data]

\* lines 115-124: existsSync, then readFileSync
AcquireFile(s) ==
  LET t == Stage(s, "Acquire")
  IN  IF ~s.exists THEN
        Return(t, ErrorResponse("Error: File " \o Str(s.file_path) \o " does not exist"))
      ELSE IF s.ioFails THEN
        CatchAll([t EXCEPT !.reads = @ + 1],
                 "EISDIR: illegal operation on a directory, read")
      ELSE [t EXCEPT !.pc = "validate", !.imageBuffer = s.data, !.acquired = s.data,
                     !.reads = @ + 1]

\* IsAllowed with the check left out
IsAllowedAlways(domain) == TRUE

\* IsAllowed with a suffix test that does not ask for the separating dot
IsAllowedBySuffix(domain) ==
  \E i \in 1..Len(ALLOWED_DOMAINS) : EndsWith(domain, ALLOWED_DOMAINS[i])

\* lines 246-248
IsAllowed(domain) ==
  \E i \in 1..Len(ALLOWED_DOMAINS) :
    \/ domain = ALLOWED_DOMAINS[i]
    \/ EndsWith(domain, <<".">> \o ALLOWED_DOMAINS[i])

\* BodyTooLong for a request sent without maxContentLength
BodyNeverTooLong(len) == FALSE

\* whether the HTTP client rejects a body of this length under the option
\* maxContentLength: MAX_IMAGE_SIZE (lines 259-262)
BodyTooLong(len) == GreaterThan(len, MAX_IMAGE_SIZE)

\* lines 258-265: the GET request and what the call keeps of the answer
FetchUrl(s) ==
  LET t == [s EXCEPT !.requests = @ + 1]
  IN  IF UrlHostname(s.url) = <<>> THEN CatchAll(t, "Invalid URL")
      ELSE IF s.ioFails THEN CatchAll(t, "Request failed with status code 404")
      ELSE IF BodyTooLong(Len(s.data)) THEN
        CatchAll([t EXCEPT !.acquired = s.data],
                 "maxContentLength size of " \o NumberText(MAX_IMAGE_SIZE) \o " exceeded")
      ELSE [t EXCEPT !.pc = "probe", !.imageBuffer = s.data, !.acquired = s.data]

\* AcquireUrl with the domain check placed before the scheme check
AcquireUrlDomainFirst(s) ==
  LET t == Stage(s, "Acquire")
      u == [t EXCEPT !.domainChecks = @ + 1]
  IN  IF Len(ALLOWED_DOMAINS) > 0 /\ UrlHostname(s.url) = <<>> THEN
        CatchAll(u, "Invalid URL")
      ELSE IF Len(ALLOWED_DOMAINS) > 0 /\ ~IsAllowed(UrlHostname(s.url)) THEN
        Return(u, ErrorResponse("Error: Domain " \o Str(UrlHostname(s.url))
                                  \o " is not in the allowed domains list"))
      ELSE IF ~StartsWith(s.url, HttpPrefix) /\ ~StartsWith(s.url, HttpsPrefix) THEN
        Return(t, ErrorResponse("Error: URL must start with http:// or https://"))
      ELSE FetchUrl(t)

\* lines 234-265: scheme check, domain check, request
AcquireUrl(s) ==
  LET t == Stage(s, "Acquire")
      u == [t EXCEPT !.domainChecks = @ + 1]
  IN  IF ~StartsWith(s.url, HttpPrefix) /\ ~StartsWith(s.url, HttpsPrefix) THEN
        Return(t, ErrorResponse("Error: URL must start with http:// or https://"))
      ELSE IF Len(ALLOWED_DOMAINS) > 0 /\ UrlHostname(s.url) = <<>> THEN
        CatchAll(u, "Invalid URL")
      ELSE IF Len(ALLOWED_DOMAINS) > 0 /\ ~IsAllowed(UrlHostname(s.url)) THEN
        Return(u, ErrorResponse("Error: Domain " \o Str(UrlHostname(s.url))
                                  \o " is not in the allowed domains list"))
      ELSE IF Len(ALLOWED_DOMAINS) > 0 THEN FetchUrl(u)
      ELSE FetchUrl(t)

\* AcquireBase64 without the test for an empty result
AcquireBase64Unchecked(s) ==
  LET decoded == FromBase64(s.base64)
  IN  [Stage(s, "Acquire") EXCEPT !.pc = "validate", !.imageBuffer = decoded,
                                  !.acquired = decoded]

\* lines 337-351: decode, and reject an empty result
AcquireBase64(s) ==
  LET t == Stage(s, "Acquire")
      decoded == FromBase64(s.base64)
  IN  IF Len(decoded) = 0 THEN
        Return(t, ErrorResponse("Error: Invalid base64 string - "
                                  \o "Invalid base64 string - decoded to empty buffer"))
      ELSE [t EXCEPT !.pc = "validate", !.imageBuffer = decoded, !.acquired = decoded]

Acquired(s) ==
  CASE s.kind = "file" -> AcquireFile(s)
    [] s.kind = "url" -> AcquireUrl(s)
    [] s.kind = "base64" -> AcquireBase64(s)

\* Validated with a comparison that also rejects the ceiling itself
ValidatedInclusive(s) ==
  LET t == Stage(s, "Validate")
  IN  IF GreaterThan(Len(s.imageBuffer) + 1, MAX_IMAGE_SIZE)
      THEN Return(t, ErrorResponse(SizeExceededText))
      ELSE [t EXCEPT !.pc = "probe"]

\* lines 126-132 and 353-359
Validated(s) ==
  LET t == Stage(s, "Validate")
  IN  IF GreaterThan(Len(s.imageBuffer), MAX_IMAGE_SIZE)
      THEN Return(t, ErrorResponse(SizeExceededText))
      ELSE [t EXCEPT !.pc = "probe"]

\* a falsy number: absent or zero
Truthy(n) == n # 0

\* TargetWidth against a box twice as wide
TargetWidthWide(metadata) == Min(metadata.width, 2 * DEFAULT_MAX_WIDTH)

\* lines 141-142
TargetWidth(metadata) == Min(metadata.width, DEFAULT_MAX_WIDTH)
TargetHeight(metadata) == Min(metadata.height, DEFAULT_MAX_HEIGHT)

\* NeedsResize with the bound itself counted as too large
NeedsResizeInclusive(metadata) ==
  /\ Truthy(metadata.width) /\ Truthy(metadata.height)
  /\ \/ metadata.width >= DEFAULT_MAX_WIDTH
     \/ metadata.height >= DEFAULT_MAX_HEIGHT

\* NeedsResize without the test that both dimensions are reported
NeedsResizeUnguarded(metadata) ==
  \/ metadata.width > TargetWidth(metadata)
  \/ metadata.height > TargetHeight(metadata)

\* lines 139 and 145: whether the resize runs
NeedsResize(metadata) ==
  /\ Truthy(metadata.width) /\ Truthy(metadata.height)
  /\ \/ metadata.width > TargetWidth(metadata)
     \/ metadata.height > TargetHeight(metadata)

\* ProbeFailed with the first probe awaited outside every try
ProbeEscapes(s) == [s EXCEPT !.pc = "threw"]

\* ProbeFailed without the catch of its own on the Base64 path
ProbeFailedOuterCatch(s) == CatchAll(s, CodecError(s.imageBuffer))

\* what a rejected probe becomes: on the Base64 path the first probe has a
\* catch of its own (lines 363-370)
ProbeFailed(s) ==
  IF s.kind = "base64"
  THEN Return(s, ErrorResponse("Error: Could not process image data - "
                                 \o CodecError(s.imageBuffer)))
  ELSE CatchAll(s, CodecError(s.imageBuffer))

\* Probed with the resize parameter honoured: no resize when it is false
ProbedUnlessDisabled(s, ok) ==
  LET t == Settled(Stage(s, "Probe"), ok)
      metadata == SharpMetadata(s.imageBuffer)
  IN  IF ~ok \/ ~Parseable(s.imageBuffer) THEN ProbeFailed(t)
      ELSE [t EXCEPT !.metadata = metadata, !.probes = Append(@, metadata),
                     !.pc = IF s.resize /\ NeedsResize(metadata)
                            THEN "resize" ELSE "compress"]

\* Probed that goes on to the resize whenever both dimensions are reported,
\* also when neither exceeds the box
ProbedAlwaysResizes(s, ok) ==
  LET t == Settled(Stage(s, "Probe"), ok)
      metadata == SharpMetadata(s.imageBuffer)
  IN  IF ~ok \/ ~Parseable(s.imageBuffer) THEN ProbeFailed(t)
      ELSE [t EXCEPT !.metadata = metadata, !.probes = Append(@, metadata),
                     !.pc = IF Truthy(metadata.width) /\ Truthy(metadata.height)
                            THEN "resize" ELSE "compress"]

\* lines 135-145, 266-276, 361-380: the first probe and the decision to resize
Probed(s, ok) ==
  LET t == Settled(Stage(s, "Probe"), ok)
      metadata == SharpMetadata(s.imageBuffer)
  IN  IF ~ok \/ ~Parseable(s.imageBuffer) THEN ProbeFailed(t)
      ELSE [t EXCEPT !.metadata = metadata, !.probes = Append(@, metadata),
                     !.pc = IF NeedsResize(metadata) THEN "resize" ELSE "compress"]

\* Resized with a catch of its own that keeps the buffer, as the compression has
ResizedBestEffort(s, ok) ==
  LET t == Settled(Stage(s, "Resize"), ok)
  IN  IF ~ok THEN [t EXCEPT !.pc = "compress"]
      ELSE [t EXCEPT !.pc = "reprobe", !.resized = TRUE,
                     !.imageBuffer = SharpResize(s.imageBuffer, TargetWidth(s.metadata),
                                                 TargetHeight(s.metadata))]

\* lines 146-153, 277-284, 381-388
Resized(s, ok) ==
  LET t == Settled(Stage(s, "Resize"), ok)
  IN  IF ~ok THEN CatchAll(t, CodecError(s.imageBuffer))
      ELSE [t EXCEPT !.pc = "reprobe", !.resized = TRUE,
                     !.imageBuffer = SharpResize(s.imageBuffer, TargetWidth(s.metadata),
                                                 TargetHeight(s.metadata))]

\* Reprobed without the assignment to metadata
ReprobedStale(s, ok) ==
  LET t == Settled(Stage(s, "ReProbe"), ok)
  IN  IF ~ok THEN CatchAll(t, CodecError(s.imageBuffer))
      ELSE [t EXCEPT !.pc = "compress"]

\* Reprobed that takes the new dimensions only and keeps the first format
ReprobedDimensionsOnly(s, ok) ==
  LET t == Settled(Stage(s, "ReProbe"), ok)
      probed == SharpMetadata(s.imageBuffer)
      metadata == [s.metadata EXCEPT !.width = probed.width, !.height = probed.height]
  IN  IF ~ok THEN CatchAll(t, CodecError(s.imageBuffer))
      ELSE [t EXCEPT !.metadata = metadata, !.probes = Append(@, metadata),
                     !.pc = "compress"]

\* lines 155-156, 286-287, 390-391
Reprobed(s, ok) ==
  LET t == Settled(Stage(s, "ReProbe"), ok)
      metadata == SharpMetadata(s.imageBuffer)
  IN  IF ~ok THEN CatchAll(t, CodecError(s.imageBuffer))
      ELSE [t EXCEPT !.metadata = metadata, !.probes = Append(@, metadata),
                     !.pc = "compress"]

\* lines 160-188: the mime type and the compression key of a file, from its
\* extension
\* FileExt without the change to lower case
FileExtAsWritten(s) == With(ExtName(s.file_path), Str)

FileExt(s) == With(ExtName(s.file_path), LAMBDA ext : Str(ToLowerCase(ext)))

FileMimeType(fileExt) ==
  CASE fileExt = ".png" -> "image/png"
    [] fileExt \in {".jpg", ".jpeg"} -> "image/jpeg"
    [] fileExt = ".gif" -> "image/gif"
    [] fileExt = ".webp" -> "image/webp"
    [] fileExt = ".svg" -> "image/svg+xml"
    [] fileExt = ".avif" -> "image/avif"
    [] OTHER -> "image/jpeg"

\* FileFormat as it was before the .avif branch was added
FileFormatWithoutAvif(fileExt) ==
  CASE fileExt = ".png" -> "png"
    [] fileExt \in {".jpg", ".jpeg"} -> "jpeg"
    [] fileExt = ".gif" -> "gif"
    [] fileExt = ".webp" -> "webp"
    [] fileExt = ".svg" -> "svg"
    [] OTHER -> "jpeg"

FileFormat(fileExt) ==
  CASE fileExt = ".png" -> "png"
    [] fileExt \in {".jpg", ".jpeg"} -> "jpeg"
    [] fileExt = ".gif" -> "gif"
    [] fileExt = ".webp" -> "webp"
    [] fileExt = ".svg" -> "svg"
    [] fileExt = ".avif" -> "avif"
    [] OTHER -> "jpeg"

\* mime_type.split('/')[1], "" when there is no second part
MimeSubtype(mime_type) ==
  LET parts == Split(mime_type, "/")
  IN  IF Len(parts) >= 2 THEN Str(parts[2]) ELSE ""

\* a || b on strings: the empty (or absent) string is falsy
OrElse(a, b) == IF a # "" THEN a ELSE b

\* the format string handed to compressImage: line 192, line 293, line 397
CompressionKey(s) ==
  CASE s.kind = "file" -> FileFormat(FileExt(s))
    [] s.kind = "url" -> OrElse(s.metadata.format, "jpeg")
    [] s.kind = "base64" ->
         OrElse(s.metadata.format, OrElse(MimeSubtype(s.mime_type), "jpeg"))

\* ResponseMimeType taken from the probed format instead
ResponseMimeTypeOfFormat(s) == "image/" \o s.metadata.format

\* the mimeType of the image item: line 216, line 302, line 422
ResponseMimeType(s) ==
  CASE s.kind = "file" -> FileMimeType(FileExt(s))
    [] s.kind = "url" -> OrElse(s.contentType, "image/jpeg")
    [] s.kind = "base64" -> Str(s.mime_type)

\* Compressed without a catch of its own: a rejection reaches the outer catch
CompressedFatal(s, ok) ==
  LET t == [Settled(Stage(s, "Compress"), ok) EXCEPT !.beforeCompress = s.imageBuffer,
                                        !.format = CompressionKey(s),
                                        !.pc = "build"]
  IN  IF ok
      THEN [t EXCEPT !.imageBuffer = compressImage(s.imageBuffer, CompressionKey(s)),
                     !.compression = "ok"]
      ELSE CatchAll([t EXCEPT !.compression = "failed"], CodecError(s.imageBuffer))

\* lines 190-196, 291-298, 395-402: the compression and its own catch, which
\* keeps the buffer when compressImage rejects
Compressed(s, ok) ==
  LET t == [Settled(Stage(s, "Compress"), ok) EXCEPT !.beforeCompress = s.imageBuffer,
                                        !.format = CompressionKey(s),
                                        !.pc = "build"]
  IN  IF ok
      THEN [t EXCEPT !.imageBuffer = compressImage(s.imageBuffer, CompressionKey(s)),
                     !.compression = "ok"]
      ELSE [t EXCEPT !.compression = "failed"]

\* lines 198-219, 300-322, 404-425: base64 of the buffer, then the response
Built(s) ==
  With(ToBase64(s.imageBuffer), LAMBDA base64 :
    With(ResponseMimeType(s), LAMBDA mimeType :
      Return([Stage(Stage(s, "Encode"), "Build") EXCEPT !.mimeType = mimeType],
             SuccessResponse(s.metadata, s.imageBuffer, base64, mimeType))))

\* the stage a call is at, applied to its locals
Stepped(s, ok) ==
  CASE s.pc = "acquire" -> Acquired(s)
    [] s.pc = "validate" -> Validated(s)
    [] s.pc = "probe" -> Probed(s, ok)
    [] s.pc = "resize" -> Resized(s, ok)
    [] s.pc = "reprobe" -> Reprobed(s, ok)
    [] s.pc = "compress" -> Compressed(s, ok)
    [] s.pc = "build" -> Built(s)
    [] OTHER -> s

\* the stages that await a codec operation
Awaits(s) == s.pc \in {"probe", "resize", "reprobe", "compress"}

\* an entry point run from s to its return, alone, the awaited operations
\* settling as oks says, in order
RECURSIVE Run(_, _)
Run(s, oks) ==
  IF s.pc \in {"idle", "returned", "threw"} THEN s
  ELSE IF ~Awaits(s) THEN With(Stepped(s, TRUE), LAMBDA n : Run(n, oks))
  ELSE IF oks = <<>> THEN s
  ELSE With(Stepped(s, Head(oks)), LAMBDA n : Run(n, Tail(oks)))

-----------------------------------------------------------------------------
(* The inputs of the model: the settings of the two environment variables, *)
(* the buffers a file, a response body or a base64 string may hold, and    *)
(* the parameters of a call.                                               *)

MaxImageSizeSettings ==
  {Unset, Setting(<<>>), Setting(<<"6">>), Setting(<<"a", "b", "c">>)}

AllowedDomainsSettings ==
  {Unset, Setting(<<>>), Setting(<<"b", ".", "c", ",", "f">>)}

Payloads == {[i \in 1..n |-> 170] : n \in 0..MaxPayloadLen}

Dimensions ==
  {<<400, 300>>, <<512, 512>>, <<513, 400>>, <<400, 513>>, <<1024, 2048>>,
   <<1024, 0>>, <<0, 600>>}

FormatsOf(seq) == {seq[i] : i \in 1..Len(seq)}

\* every format at one size that needs a resize, and one format at every size
Images ==
  {MakeImage(f, 513, 400, p) : f \in FormatsOf(CodecFormats), p \in Payloads}
    \cup {MakeImage("png", d[1], d[2], p) : d \in Dimensions, p \in Payloads}

\* buffers the codec cannot read: an empty one, and one with an unknown tag
Unreadable == {<<>>, <<0, 1, 2, 3, 4, 5, 6>>}

Buffers == Images \cup Unreadable

OneImage == MakeImage("png", 513, 400, <<>>)

LegacyParams ==
  {[resize |-> TRUE, max_width |-> 512, max_height |-> 512],
   [resize |-> FALSE, max_width |-> 1024, max_height |-> 100]}

FilePaths ==
  {<<"a", ".", "p", "n", "g">>, <<"a", ".", "P", "N", "G">>,
   <<"a", ".", "j", "p", "g">>, <<"a", ".", "j", "p", "e", "g">>,
   <<"a", ".", "g", "i", "f">>, <<"a", ".", "w", "e", "b", "p">>,
   <<"a", ".", "s", "v", "g">>, <<"a", ".", "a", "v", "i", "f">>,
   <<"a", ".", "b", "m", "p">>, <<"d", ".", "e", "/", "a">>}

GoodUrl == HttpPrefix \o <<"b", ".", "c", "/", "i">>

Urls ==
  {GoodUrl,
   HttpsPrefix \o <<"a", ".", "b", ".", "c">>,
   HttpPrefix \o <<"x", "b", ".", "c">>,
   HttpPrefix \o <<"d", ".", "e">>,
   HttpPrefix \o <<"u", "@", "F", ":", "8", "/", "b", ".", "c">>,
   HttpPrefix \o <<"b", ".", "c", ".", "d", "/", "i">>,
   HttpPrefix,
   <<"f", "t", "p", ":", "/", "/", "b", ".", "c">>,
   <<"f", "t", "p", ":", "/", "/", "d", ".", "e">>,
   <<"b", ".", "c">>}

ContentTypes == {"", "image/png", "image/gif"}

MimeTypes ==
  {<<"i", "m", "a", "g", "e", "/", "p", "n", "g">>,
   <<"i", "m", "a", "g", "e", "/", "j", "p", "e", "g">>,
   <<"p", "n", "g">>}

Base64Strings == {ToBase64(b) : b \in Buffers} \cup {<<"!", "!">>, <<"Q">>}

NoInput ==
  [kind |-> "none", file_path |-> <<>>, url |-> <<>>, base64 |-> <<>>,
   mime_type |-> <<>>, exists |-> FALSE, ioFails |-> FALSE, data |-> <<>>,
   contentType |-> ""]

\* a file that does not exist, one that cannot be read, one that holds b
FileInputs ==
  {[NoInput EXCEPT !.kind = "file", !.file_path = p, !.exists = e[1],
                   !.ioFails = e[2], !.data = e[3]] :
     p \in FilePaths,
     e \in {<<FALSE, FALSE, <<>>>>, <<TRUE, TRUE, <<>>>>}
             \cup {<<TRUE, FALSE, b>> : b \in Buffers}}

\* a server that answers GoodUrl with every body and content type, and one
\* answer for every other URL; a request that fails
UrlInputs ==
  {[NoInput EXCEPT !.kind = "url", !.url = GoodUrl, !.data = b, !.contentType = t] :
     b \in Buffers, t \in ContentTypes}
  \cup {[NoInput EXCEPT !.kind = "url", !.url = u, !.data = OneImage] : u \in Urls}
  \cup {[NoInput EXCEPT !.kind = "url", !.url = GoodUrl, !.ioFails = TRUE]}

Base64Inputs ==
  {[NoInput EXCEPT !.kind = "base64", !.base64 = b, !.mime_type = m] :
     b \in Base64Strings, m \in MimeTypes}

WithLegacy(in, l) ==
  [kind |-> in.kind, file_path |-> in.file_path, url |-> in.url,
   base64 |-> in.base64, mime_type |-> in.mime_type, exists |-> in.exists,
   ioFails |-> in.ioFails, data |-> in.data, contentType |-> in.contentType,
   resize |-> l.resize, max_width |-> l.max_width, max_height |-> l.max_height]

Inputs ==
  {WithLegacy(in, l) : in \in FileInputs \cup UrlInputs \cup Base64Inputs,
                       l \in LegacyParams}

CallIds == {"c1"}

-----------------------------------------------------------------------------
(* The state machine *)

Init ==
  /\ MAX_IMAGE_SIZE \in {ReadMaxImageSize(e) : e \in MaxImageSizeSettings}
  /\ ALLOWED_DOMAINS \in {ReadAllowedDomains(e) : e \in AllowedDomainsSettings}
  /\ call = [c \in CallIds |-> IdleCall]

\* Update with imageBuffer declared once for the module instead of per call
UpdateSharedBuffer(c, s) ==
  /\ call' = [d \in DOMAIN call |->
                IF d = c THEN s ELSE [call[d] EXCEPT !.imageBuffer = s.imageBuffer]]
  /\ UNCHANGED <<MAX_IMAGE_SIZE, ALLOWED_DOMAINS>>

Update(c, s) ==
  /\ call' = [call EXCEPT ![c] = s]
  /\ UNCHANGED <<MAX_IMAGE_SIZE, ALLOWED_DOMAINS>>

\* the transport invokes an entry point
Start(c) ==
  /\ call[c].pc = "idle"
  /\ \E in \in Inputs : Update(c, NewCall(in))

Acquire(c) ==
  /\ call[c].pc = "acquire"
  /\ Update(c, Acquired(call[c]))

Validate(c) ==
  /\ call[c].pc = "validate"
  /\ Update(c, Validated(call[c]))

Probe(c) ==
  /\ call[c].pc = "probe"
  /\ \E ok \in BOOLEAN : Update(c, Probed(call[c], ok))

Resize(c) ==
  /\ call[c].pc = "resize"
  /\ \E ok \in BOOLEAN : Update(c, Resized(call[c], ok))

ReProbe(c) ==
  /\ call[c].pc = "reprobe"
  /\ \E ok \in BOOLEAN : Update(c, Reprobed(call[c], ok))

Compress(c) ==
  /\ call[c].pc = "compress"
  /\ \E ok \in BOOLEAN : Update(c, Compressed(call[c], ok))

Build(c) ==
  /\ call[c].pc = "build"
  /\ Update(c, Built(call[c]))

\* the steps of a call that has started
Step(c) ==
  \/ Acquire(c) \/ Validate(c) \/ Probe(c) \/ Resize(c) \/ ReProbe(c)
  \/ Compress(c) \/ Build(c)

Next == \E c \in CallIds : Start(c) \/ Step(c)

Spec == Init /\ [][Next]_vars

\* The same calls on images of many sizes, under the default configuration:
\* a file or a base64 payload holding a w x h image, for the sides below.
Sides == {1, 2, 100, 511, 512, 513, 600, 1023, 1024, 1025, 2047, 4000, 65535}

SizedImages == {MakeImage("png", w, h, <<>>) : w \in Sides, h \in Sides}

SizedInputs ==
  {WithLegacy([NoInput EXCEPT !.kind = "file", !.file_path = <<"a", ".", "p", "n", "g">>,
                              !.exists = TRUE, !.data = b],
              [resize |-> TRUE, max_width |-> 512, max_height |-> 512]) :
     b \in SizedImages}
  \cup
  {WithLegacy([NoInput EXCEPT !.kind = "base64", !.base64 = ToBase64(b),
                              !.mime_type = <<"i", "m", "a", "g", "e", "/", "p", "n", "g">>],
              [resize |-> TRUE, max_width |-> 512, max_height |-> 512]) :
     b \in SizedImages}

InitSized ==
  /\ MAX_IMAGE_SIZE = ReadMaxImageSize(Unset)
  /\ ALLOWED_DOMAINS = ReadAllowedDomains(Unset)
  /\ call = [c \in CallIds |-> IdleCall]

StartSized(c) ==
  /\ call[c].pc = "idle"
  /\ \E in \in SizedInputs : Update(c, NewCall(in))

NextSized == \E c \in CallIds : StartSized(c) \/ Step(c)

SizedSpec == InitSized /\ [][NextSized]_vars

\* Two invocations in flight at once, each on one of a few inputs; their
\* steps interleave at the awaited operations.
ConcurrentIds == {"c1", "c2"}

FewInputs ==
  {WithLegacy(in, [resize |-> TRUE, max_width |-> 512, max_height |-> 512]) :
     in \in
       {[NoInput EXCEPT !.kind = "file", !.file_path = <<"a", ".", "j", "p", "g">>,
                        !.exists = TRUE,
                        !.data = MakeImage("png", 513, 400, <<170, 170>>)],
        [NoInput EXCEPT !.kind = "file", !.file_path = <<"a", ".", "p", "n", "g">>],
        [NoInput EXCEPT !.kind = "url", !.url = GoodUrl, !.data = OneImage,
                        !.contentType = "image/png"],
        [NoInput EXCEPT !.kind = "url", !.url = HttpPrefix \o <<"d", ".", "e">>,
                        !.data = MakeImage("gif", 400, 300, <<170>>)],
        [NoInput EXCEPT !.kind = "base64",
                        !.base64 = ToBase64(MakeImage("webp", 400, 300, <<>>)),
                        !.mime_type = <<"i", "m", "a", "g", "e", "/", "p", "n", "g">>],
        [NoInput EXCEPT !.kind = "base64", !.base64 = <<"!", "!">>,
                        !.mime_type = <<"p", "n", "g">>]}}

InitConcurrent ==
  /\ MAX_IMAGE_SIZE \in {ReadMaxImageSize(e) : e \in {Unset, Setting(<<"6">>)}}
  /\ ALLOWED_DOMAINS \in {ReadAllowedDomains(e) : e \in AllowedDomainsSettings}
  /\ call = [c \in ConcurrentIds |-> IdleCall]

StartFew(c) ==
  /\ call[c].pc = "idle"
  /\ \E in \in FewInputs : Update(c, NewCall(in))

NextConcurrent == \E c \in ConcurrentIds : StartFew(c) \/ Step(c)

ConcurrentSpec == InitConcurrent /\ [][NextConcurrent]_vars

\* every awaited operation eventually resolves or rejects, and the event loop
\* runs every continuation that is ready
FairSpec == Spec /\ \A c \in CallIds : WF_vars(Step(c))

-----------------------------------------------------------------------------
(* Vocabulary of the properties *)

Returned(s) == s.pc = "returned"
Succeeded(s) == Returned(s) /\ ~IsError(s.response)

Content(s) == s.response.content
TextOf(s) == Content(s)[1].text
DataOf(s) == Content(s)[2].data

IsErrorForm(r) ==
  /\ IsError(r)
  /\ Len(r.content) = 1
  /\ r.content[1].type = "text"

IsSuccessForm(r) ==
  /\ "isError" \notin DOMAIN r
  /\ Len(r.content) = 2
  /\ r.content[1].type = "text"
  /\ r.content[2].type = "image"

HasImageItem(r) == \E i \in 1..Len(r.content) : r.content[i].type = "image"

Ran(s, stage) == \E i \in 1..Len(s.stages) : s.stages[i] = stage
LastStage(s) == s.stages[Len(s.stages)]

\* an image the codec reads and gives both dimensions of
ValidImage(buf) == Parseable(buf) /\ ImgWidth(buf) > 0 /\ ImgHeight(buf) > 0

\* the acquisition of the call failed: from its inputs alone
AcquisitionFails(s) ==
  CASE s.kind = "file" -> ~s.exists \/ s.ioFails
    [] s.kind = "url" ->
         \/ ~StartsWith(s.url, HttpPrefix) /\ ~StartsWith(s.url, HttpsPrefix)
         \/ UrlHostname(s.url) = <<>>
         \/ Len(ALLOWED_DOMAINS) > 0 /\ ~IsAllowed(UrlHostname(s.url))
         \/ s.ioFails
         \/ GreaterThan(Len(s.data), MAX_IMAGE_SIZE)
    [] s.kind = "base64" -> Len(FromBase64(s.base64)) = 0
    [] OTHER -> FALSE

\* a stage of the call has run and failed: acquisition, size validation,
\* probe, resize or re-probe
StageFailed(s) ==
  \/ Ran(s, "Acquire") /\ AcquisitionFails(s)
  \/ Ran(s, "Validate") /\ GreaterThan(Len(s.acquired), MAX_IMAGE_SIZE)
  \/ Ran(s, "Probe") /\ Len(s.probes) = 0
  \/ Ran(s, "Resize") /\ ~s.resized
  \/ Ran(s, "ReProbe") /\ Len(s.probes) < 2

\* host is the entry, or ends with a dot followed by the entry
HostMatches(host, entry) ==
  \/ host = entry
  \/ /\ Len(host) > Len(entry)
     /\ host[Len(host) - Len(entry)] = "."
     /\ \A i \in 1..Len(entry) : host[Len(host) - Len(entry) + i] = entry[i]

OnAllowList(host) == \E i \in 1..Len(ALLOWED_DOMAINS) : HostMatches(host, ALLOWED_DOMAINS[i])

IsHttpUrl(url) == StartsWith(url, HttpPrefix) \/ StartsWith(url, HttpsPrefix)

DomainRejectedText(host) ==
  "Error: Domain " \o Str(host) \o " is not in the allowed domains list"

SchemeErrorText == "Error: URL must start with http:// or https://"

\* the text begins with the prefix
TextStartsWith(text, prefix) ==
  Len(text) >= Len(prefix) /\ SubSeq(text, 1, Len(prefix)) = prefix

\* the parameters and the outside world the call was started with
InputOf(s) ==
  [kind |-> s.kind, file_path |-> s.file_path, url |-> s.url, base64 |-> s.base64,
   mime_type |-> s.mime_type, exists |-> s.exists, ioFails |-> s.ioFails,
   data |-> s.data, contentType |-> s.contentType,
   resize |-> s.resize, max_width |-> s.max_width, max_height |-> s.max_height]

\* values a caller may give the three legacy parameters
LegacyVariants ==
  {[resize |-> TRUE, max_width |-> 512, max_height |-> 512],
   [resize |-> FALSE, max_width |-> 1024, max_height |-> 100],
   [resize |-> TRUE, max_width |-> 100, max_height |-> 2048]}

\* the resize of the call has been decided for, or has run
ResizeChosen(s) == s.pc = "resize" \/ Ran(s, "Resize")

Abs(n) == IF n < 0 THEN 0 - n ELSE n

\* the same input with other image content
WithContent(in, buf) ==
  IF in.kind = "base64" THEN [in EXCEPT !.base64 = ToBase64(buf)]
  ELSE [in EXCEPT !.data = buf]

\* other contents: another format that needs no resize, and one that does
OtherContents ==
  {MakeImage("gif", 400, 300, <<>>), MakeImage("webp", 1024, 2048, <<170>>)}

\* other ways for the codec to settle: all resolve; the compression rejects,
\* without and with a resize before it
OtherOutcomes ==
  {<<TRUE, TRUE, TRUE, TRUE>>, <<TRUE, FALSE>>, <<TRUE, TRUE, TRUE, FALSE>>}

\* the mimeType the source of the call stands for
MimeOfExtension ==
  {<<".png", "image/png">>, <<".jpg", "image/jpeg">>, <<".jpeg", "image/jpeg">>,
   <<".gif", "image/gif">>, <<".webp", "image/webp">>, <<".svg", "image/svg+xml">>,
   <<".avif", "image/avif">>}

MimeOfSource(s) ==
  CASE s.kind = "file" ->
         LET ext == Str(ToLowerCase(ExtName(s.file_path)))
         IN  IF \E e \in MimeOfExtension : e[1] = ext
             THEN (CHOOSE e \in MimeOfExtension : e[1] = ext)[2]
             ELSE "image/jpeg"
    [] s.kind = "url" -> IF s.contentType = "" THEN "image/jpeg" ELSE s.contentType
    [] s.kind = "base64" -> Str(s.mime_type)

\* the codec table as the specification gives it, keyed by a format
CodecOfTable(fmt) ==
  CASE fmt \in {"jpeg", "jpg"} ->
         [method |-> "jpeg", options |-> [quality |-> 80, compressionLevel |-> 0]]
    [] fmt = "png" ->
         [method |-> "png", options |-> [quality |-> 80, compressionLevel |-> 9]]
    [] fmt = "webp" ->
         [method |-> "webp", options |-> [quality |-> 80, compressionLevel |-> 0]]
    [] fmt = "avif" ->
         [method |-> "avif", options |-> [quality |-> 80, compressionLevel |-> 0]]
    [] fmt = "tiff" ->
         [method |-> "tiff", options |-> [quality |-> 80, compressionLevel |-> 0]]
    [] fmt \in {"gif", "svg"} ->
         [method |-> "toBuffer", options |-> [quality |-> 0, compressionLevel |-> 0]]
    [] OTHER ->
         [method |-> "jpeg", options |-> [quality |-> 80, compressionLevel |-> 0]]

\* the orders in which the stages of a call may have run
StageOrders ==
  {<<"Acquire", "Validate", "Probe", "Resize", "ReProbe", "Compress", "Encode", "Build">>,
   <<"Acquire", "Validate", "Probe", "Compress", "Encode", "Build">>,
   <<"Acquire", "Probe", "Resize", "ReProbe", "Compress", "Encode", "Build">>,
   <<"Acquire", "Probe", "Compress", "Encode", "Build">>}

IsPrefix(p, q) == Len(p) <= Len(q) /\ SubSeq(q, 1, Len(p)) = p

\* the MIME hint of each file path of the model, as the specification lists it
MimeHintOfPath ==
  {<< <<"a", ".", "p", "n", "g">>, "image/png" >>,
   << <<"a", ".", "P", "N", "G">>, "image/png" >>,
   << <<"a", ".", "j", "p", "g">>, "image/jpeg" >>,
   << <<"a", ".", "j", "p", "e", "g">>, "image/jpeg" >>,
   << <<"a", ".", "g", "i", "f">>, "image/gif" >>,
   << <<"a", ".", "w", "e", "b", "p">>, "image/webp" >>,
   << <<"a", ".", "s", "v", "g">>, "image/svg+xml" >>,
   << <<"a", ".", "a", "v", "i", "f">>, "image/avif" >>,
   << <<"a", ".", "b", "m", "p">>, "image/jpeg" >>,
   << <<"d", ".", "e", "/", "a">>, "image/jpeg" >>}

\* the probe reported no width or no height
NoDimension(metadata) == metadata.width = 0 \/ metadata.height = 0

-----------------------------------------------------------------------------
(* Properties *)

\* C1: whenever acquisition, size validation, probe, resize or re-probe
\* fails in a call of any entry point, thrown errors included, the call has
\* returned a response with isError = true; no error leaves the entry point.
C1_FailuresBecomeErrorResponses ==
  \A c \in CallIds :
    /\ call[c].pc # "threw"
    /\ StageFailed(call[c]) =>
         Returned(call[c]) /\ IsError(call[c].response)

\* a thrown codec error (a rejected re-probe) was caught and returned
C1_Witness ==
  \E c \in CallIds :
    /\ Returned(call[c]) /\ call[c].caught
    /\ LastStage(call[c]) = "ReProbe"
    /\ IsError(call[c].response)

\* C2: a response not flagged isError holds exactly two items: the text item
\* with the JSON of the metadata, then the image item with the base64 of the
\* final buffer.
C2_SuccessShape ==
  \A c \in CallIds :
    Succeeded(call[c]) =>
      /\ Len(Content(call[c])) = 2
      /\ Content(call[c])[1] =
           TextItem(MetadataJson(call[c].metadata, Len(call[c].imageBuffer)))
      /\ Content(call[c])[2].type = "image"
      /\ DataOf(call[c]) = ToBase64(call[c].imageBuffer)
      /\ FromBase64(DataOf(call[c])) = call[c].imageBuffer

C2_Witness ==
  \E c \in CallIds :
    /\ Succeeded(call[c])
    /\ call[c].kind = "url"
    /\ Len(call[c].imageBuffer) > 5

\* C3: a response flagged isError holds exactly one item, a text item that
\* describes the failure, and never an image item; every response is of
\* this form or of the two-item success form.
C3_ErrorShape ==
  \A c \in CallIds :
    Returned(call[c]) =>
      /\ IsError(call[c].response) =>
           /\ IsErrorForm(call[c].response)
           /\ ~HasImageItem(call[c].response)
           /\ StageFailed(call[c])
      /\ IsErrorForm(call[c].response) \/ IsSuccessForm(call[c].response)

C3_Witness ==
  \E c \in CallIds :
    /\ Returned(call[c])
    /\ IsError(call[c].response)
    /\ TextOf(call[c]) = SizeExceededText

\* C4: a call that has started eventually returns, provided every awaited
\* operation settles; it returns once, either the success response after
\* Build or an error response, and is never left without a response.
C4_EveryCallReturns ==
  /\ \A c \in CallIds : (call[c].pc # "idle") ~> Returned(call[c])
  /\ [][\A c \in CallIds : Returned(call[c]) => call'[c] = call[c]]_vars
  /\ [](\A c \in CallIds :
          Returned(call[c]) =>
            (IsError(call[c].response) <=> LastStage(call[c]) # "Build"))

C4_Witness ==
  \E c \in CallIds :
    /\ Returned(call[c])
    /\ call[c].stages = <<"Acquire", "Validate", "Probe", "Resize", "ReProbe",
                          "Compress", "Encode", "Build">>

\* the buffer a call hands to the compressor: the acquired buffer, resized
\* when the resize ran
PostResize(s) ==
  IF s.resized
  THEN SharpResize(s.acquired, Min(ImgWidth(s.acquired), DEFAULT_MAX_WIDTH),
                   Min(ImgHeight(s.acquired), DEFAULT_MAX_HEIGHT))
  ELSE s.acquired

C6_OversizeRejected ==
  \A c \in CallIds :
    (Returned(call[c]) /\ GreaterThan(Len(call[c].acquired), MAX_IMAGE_SIZE)) =>
      /\ IsError(call[c].response)
      /\ ~HasImageItem(call[c].response)
      /\ call[c].kind \in {"file", "base64"} =>
           /\ call[c].stages = <<"Acquire", "Validate">>
           /\ TextOf(call[c]) = SizeExceededText
      /\ call[c].kind = "url" =>
           /\ call[c].stages = <<"Acquire">>
           /\ call[c].requests = 1
           /\ call[c].caught

\* the server sent a body over the ceiling
C6_Witness ==
  \E c \in CallIds :
    /\ Returned(call[c]) /\ call[c].kind = "url"
    /\ GreaterThan(Len(call[c].acquired), MAX_IMAGE_SIZE)
    /\ IsError(call[c].response)

\* C7: when compressImage rejects, the call still returns the two-item
\* success response, and the image item encodes the buffer that entered the
\* compressor (after the resize, before the compression), unchanged.
C7_CompressionFailureKeepsBuffer ==
  \A c \in CallIds :
    (Returned(call[c]) /\ call[c].compression = "failed") =>
      /\ IsSuccessForm(call[c].response)
      /\ DataOf(call[c]) = ToBase64(call[c].beforeCompress)
      /\ FromBase64(DataOf(call[c])) = PostResize(call[c])

C7_Witness ==
  \E c \in CallIds :
    /\ Returned(call[c]) /\ call[c].compression = "failed"
    /\ call[c].resized
    /\ IsSuccessForm(call[c].response)

\* C8: in every success response the format of the text item is the format
\* of the buffer the image item encodes.
C8_FormatMatchesBuffer ==
  \A c \in CallIds :
    Succeeded(call[c]) =>
      JsonValue(TextOf(call[c]), "format") = ImgFormat(FromBase64(DataOf(call[c])))

\* C9: in every success response, probing the buffer the image item decodes
\* to gives the width and the height the text item records, whether or not
\* the resize ran and whether or not the compression succeeded.
C9_DimensionsMatchBuffer ==
  \A c \in CallIds :
    Succeeded(call[c]) =>
      /\ Parseable(FromBase64(DataOf(call[c])))
      /\ SharpMetadata(FromBase64(DataOf(call[c]))).width
           = JsonValue(TextOf(call[c]), "width")
      /\ SharpMetadata(FromBase64(DataOf(call[c]))).height
           = JsonValue(TextOf(call[c]), "height")

C9_Witness ==
  \E c \in CallIds :
    /\ Succeeded(call[c])
    /\ call[c].resized /\ call[c].compression = "ok"
    /\ JsonValue(TextOf(call[c]), "width") # ImgWidth(call[c].acquired)

\* C10: in every success response the size of the text item is the byte
\* length of the buffer the image item encodes: of the compressed buffer when
\* the compression succeeded, of the buffer after the resize when it failed.
C10_SizeIsFinalLength ==
  \A c \in CallIds :
    Succeeded(call[c]) =>
      /\ JsonValue(TextOf(call[c]), "size") = Len(FromBase64(DataOf(call[c])))
      /\ call[c].compression = "ok" =>
           JsonValue(TextOf(call[c]), "size")
             = Len(compressImage(PostResize(call[c]), call[c].format))
      /\ call[c].compression = "failed" =>
           JsonValue(TextOf(call[c]), "size") = Len(PostResize(call[c]))

\* the compression shortened the buffer and the size is the shorter length
C10_Witness ==
  \E c \in CallIds :
    /\ Succeeded(call[c]) /\ call[c].compression = "ok"
    /\ JsonValue(TextOf(call[c]), "size") < Len(call[c].beforeCompress)

\* C11: with a non-empty allow-list, a call of extractImageFromUrl on an
\* http(s) URL whose hostname matches no entry never issues the GET request,
\* at any point of the call, and once Acquire has run it has returned a
\* response with isError = true.
C11_DomainRejectedBeforeFetch ==
  \A c \in CallIds :
    ( /\ call[c].kind = "url" /\ IsHttpUrl(call[c].url)
      /\ Len(ALLOWED_DOMAINS) > 0
      /\ ~OnAllowList(UrlHostname(call[c].url)) )
    => /\ call[c].requests = 0
       /\ Ran(call[c], "Acquire") =>
            /\ Returned(call[c]) /\ IsErrorForm(call[c].response)
            /\ call[c].stages = <<"Acquire">>
            /\ call[c].acquired = <<>>

\* the host xb.c was turned away by the list b.c,f
C11_Witness ==
  \E c \in CallIds :
    /\ Returned(call[c]) /\ call[c].kind = "url"
    /\ UrlHostname(call[c].url) = <<"x", "b", ".", "c">>
    /\ Len(ALLOWED_DOMAINS) > 0
    /\ TextOf(call[c]) = DomainRejectedText(<<"x", "b", ".", "c">>)
    /\ call[c].requests = 0

\* C12: with a non-empty allow-list an http(s) URL passes the domain check
\* (the request is issued) exactly when its hostname is an entry or ends with
\* a dot followed by an entry, and is otherwise answered with the domain
\* error; with no allow-list every http(s) URL passes and none is answered
\* with the domain error.
C12_DomainCheckIsDotSuffix ==
  \A c \in CallIds :
    ( /\ call[c].kind = "url" /\ Ran(call[c], "Acquire")
      /\ IsHttpUrl(call[c].url) /\ UrlHostname(call[c].url) # <<>> )
    => LET host == UrlHostname(call[c].url)
           rejected == /\ Returned(call[c]) /\ IsError(call[c].response)
                       /\ TextOf(call[c]) = DomainRejectedText(host)
       IN  /\ Len(ALLOWED_DOMAINS) > 0 =>
                /\ call[c].requests = 1 <=> OnAllowList(host)
                /\ rejected <=> ~OnAllowList(host)
           /\ Len(ALLOWED_DOMAINS) = 0 => call[c].requests = 1 /\ ~rejected

\* the subdomain a.b.c of the entry b.c passed and was fetched
C12_Witness ==
  \E c \in CallIds :
    /\ Succeeded(call[c]) /\ call[c].kind = "url"
    /\ Len(ALLOWED_DOMAINS) > 0
    /\ UrlHostname(call[c].url) = <<"a", ".", "b", ".", "c">>
    /\ call[c].requests = 1

\* C13: a call of extractImageFromFile on a path that does not exist returns
\* isError = true with the single text "File <path> does not exist"; the
\* file is never read and neither the size check nor the codec is reached.
C13_MissingFileRejected ==
  \A c \in CallIds :
    (call[c].kind = "file" /\ ~call[c].exists) =>
      /\ call[c].reads = 0
      /\ ~Ran(call[c], "Validate") /\ call[c].outcomes = <<>>
      /\ Ran(call[c], "Acquire") =>
           /\ Returned(call[c])
           /\ IsErrorForm(call[c].response)
           /\ TextOf(call[c]) = "Error: File " \o Str(call[c].file_path) \o " does not exist"
           /\ ~call[c].caught

C13_Witness ==
  \E c \in CallIds :
    /\ Returned(call[c]) /\ call[c].kind = "file" /\ ~call[c].exists
    /\ TextOf(call[c]) = "Error: File a.png does not exist"

\* C14: a call of extractImageFromBase64 on a payload that decodes to a
\* zero-length buffer returns isError = true with a text citing an invalid
\* base64 string; the size check and the probe never run.
C14_EmptyDecodeRejected ==
  \A c \in CallIds :
    (call[c].kind = "base64" /\ FromBase64(call[c].base64) = <<>>) =>
      /\ ~Ran(call[c], "Validate") /\ ~Ran(call[c], "Probe")
      /\ call[c].outcomes = <<>>
      /\ Ran(call[c], "Acquire") =>
           /\ Returned(call[c])
           /\ IsErrorForm(call[c].response)
           /\ TextStartsWith(TextOf(call[c]), "Error: Invalid base64 string")
           /\ call[c].stages = <<"Acquire">>

\* the empty string, and a string with no character of the alphabet
C14_Witness ==
  \E c \in CallIds :
    /\ Returned(call[c]) /\ call[c].kind = "base64"
    /\ call[c].base64 \in {<<>>, <<"!", "!">>}
    /\ TextStartsWith(TextOf(call[c]), "Error: Invalid base64 string")

\* C15: a call of extractImageFromUrl on a URL that starts with neither
\* http:// nor https:// returns isError = true with the scheme error, without
\* the allow-list being consulted and without a request, also when the
\* URL's host is not on the allow-list.
C15_SchemeCheckedFirst ==
  \A c \in CallIds :
    (call[c].kind = "url" /\ ~IsHttpUrl(call[c].url)) =>
      /\ call[c].domainChecks = 0
      /\ call[c].requests = 0
      /\ Ran(call[c], "Acquire") =>
           /\ Returned(call[c])
           /\ call[c].response = [content |-> <<TextItem(SchemeErrorText)>>,
                                  isError |-> TRUE]

\* ftp://d.e, whose host d.e is not on the list, got the scheme error
C15_Witness ==
  \E c \in CallIds :
    /\ Returned(call[c]) /\ call[c].kind = "url"
    /\ call[c].url = <<"f", "t", "p", ":", "/", "/", "d", ".", "e">>
    /\ Len(ALLOWED_DOMAINS) > 0
    /\ ~OnAllowList(UrlHostname(call[c].url))
    /\ TextOf(call[c]) = SchemeErrorText

\* C16: the parameters resize, max_width and max_height are no-ops: the
\* response of a call is the response the same entry point gives, on the
\* same input and with the codec settling the same way, for any other values
\* of the three parameters; and when the resize ran, the image is the one
\* fitted inside 512 x 512.
C16_LegacyParametersIgnored ==
  \A c \in CallIds :
    Returned(call[c]) =>
      /\ \A l \in LegacyVariants :
           Run(NewCall(WithLegacy(InputOf(call[c]), l)), call[c].outcomes).response
             = call[c].response
      /\ Len(call[c].probes) = 2 =>
           <<call[c].probes[2].width, call[c].probes[2].height>>
             = FitInside(call[c].probes[1].width, call[c].probes[1].height, 512, 512)

\* resize = false with max_width = 1024, and the 1024-wide image still came
\* back 256 x 512
C16_Witness ==
  \E c \in CallIds :
    /\ Succeeded(call[c])
    /\ ~call[c].resize /\ call[c].max_width = 1024 /\ call[c].max_height = 100
    /\ ImgWidth(call[c].acquired) = 1024 /\ ImgHeight(call[c].acquired) = 2048
    /\ JsonValue(TextOf(call[c]), "width") = 256
    /\ JsonValue(TextOf(call[c]), "height") = 512

C18_ResizeFitsInsideBox ==
  \A c \in CallIds :
    Len(call[c].probes) = 2 =>
      LET w == call[c].probes[1].width
          h == call[c].probes[1].height
          rw == call[c].probes[2].width
          rh == call[c].probes[2].height
          m == Max(w, h)
      IN  /\ <<rw, rh>> = FitInside(w, h, 512, 512)
          /\ 1 <= rw /\ rw <= w /\ rw <= 512
          /\ 1 <= rh /\ rh <= h /\ rh <= 512
          /\ rw = 512 \/ rh = 512
          /\ Abs(rw * m - 512 * w) <= m
          /\ Abs(rh * m - 512 * h) <= m

\* a 1025 x 600 image became 512 x 300
C18_Witness ==
  \E c \in CallIds :
    /\ Len(call[c].probes) = 2
    /\ call[c].probes[1] = [format |-> "png", width |-> 1025, height |-> 600]
    /\ call[c].probes[2] = [format |-> "png", width |-> 512, height |-> 300]

\* C19: the mimeType of the image item comes from the entry point's own
\* source only: the file extension, the content-type header (image/jpeg when
\* absent), or the mime_type parameter verbatim; the same call on other image
\* content, with or without a resize and whether or not the compression
\* succeeds, returns the same mimeType.
C19_MimeTypeFromSourceOnly ==
  \A c \in CallIds :
    Succeeded(call[c]) =>
      /\ Content(call[c])[2].mimeType = MimeOfSource(call[c])
      /\ \A buf \in OtherContents, oks \in OtherOutcomes :
           LET r == Run(NewCall(WithContent(InputOf(call[c]), buf)), oks)
           IN  Succeeded(r) =>
                 Content(r)[2].mimeType = Content(call[c])[2].mimeType

\* a file named a.gif that holds a JPEG image came back as image/gif
C19_Witness ==
  \E c \in CallIds :
    /\ Succeeded(call[c]) /\ call[c].kind = "file"
    /\ call[c].file_path = <<"a", ".", "g", "i", "f">>
    /\ ImgFormat(call[c].acquired) = "jpeg"
    /\ call[c].resized /\ call[c].compression = "failed"
    /\ Content(call[c])[2].mimeType = "image/gif"

\* C20: with two calls in flight and their steps interleaved in any order,
\* the response of each call is the response the entry point gives when run
\* alone on the same input, under the same configuration and with its codec
\* operations settling the same way; a step of one call changes nothing of
\* the other, and no step writes MAX_IMAGE_SIZE or ALLOWED_DOMAINS.
C20_CallsAreIndependent ==
  /\ [](\A c \in DOMAIN call :
          Returned(call[c]) =>
            call[c].response
              = Run(NewCall(InputOf(call[c])), call[c].outcomes).response)
  /\ [][ /\ MAX_IMAGE_SIZE' = MAX_IMAGE_SIZE
         /\ ALLOWED_DOMAINS' = ALLOWED_DOMAINS
         /\ \A c, d \in DOMAIN call :
              (c # d /\ call'[c] # call[c]) => call'[d] = call[d] ]_vars

\* one call has returned its image while the other, started on another
\* entry point, is suspended between its resize and its second probe
C20_Witness ==
  /\ DOMAIN call = ConcurrentIds
  /\ Succeeded(call["c1"]) /\ call["c1"].kind = "url"
  /\ call["c2"].kind = "file" /\ call["c2"].pc = "reprobe"

\* C21: in every entry point the codec of the compression is the one the
\* fixed table gives for the format of the buffer being compressed: jpeg and
\* jpg -> JPEG quality 80, png -> PNG quality 80 level 9, webp, avif and
\* tiff -> their codec at quality 80, gif and svg -> no re-encode, any other
\* format -> JPEG quality 80.
C21_CodecByBufferFormat ==
  \A c \in CallIds :
    Ran(call[c], "Compress") =>
      CompressionCodec(call[c].format)
        = CodecOfTable(ImgFormat(call[c].beforeCompress))

\* C22: the stages of a call run in the order Acquire, Validate, Probe,
\* Resize and ReProbe (both or neither), Compress, Encode, Build, each at
\* most once and never going back; after a failed stage other than Compress
\* no later stage runs and the call has returned an error; a success response
\* comes from Build only.
C22_StagesInOrder ==
  /\ [](\A c \in CallIds :
          /\ \E o \in StageOrders : IsPrefix(call[c].stages, o)
          /\ (Ran(call[c], "Validate") <=>
                (call[c].kind \in {"file", "base64"} /\ Len(call[c].stages) >= 2))
          /\ StageFailed(call[c]) =>
               /\ Returned(call[c]) /\ IsError(call[c].response)
               /\ ~Ran(call[c], "Compress") /\ ~Ran(call[c], "Build")
          /\ \A i \in 1..(Len(call[c].outcomes) - 1) : call[c].outcomes[i]
          /\ Succeeded(call[c]) => LastStage(call[c]) = "Build")
  /\ [][\A c \in CallIds :
          call[c].pc # "idle" => IsPrefix(call[c].stages, call'[c].stages)]_vars

\* a call whose resize was rejected stopped there
C22_Witness ==
  \E c \in CallIds :
    /\ Returned(call[c]) /\ IsError(call[c].response)
    /\ call[c].stages = <<"Acquire", "Validate", "Probe", "Resize">>

\* C23: on the File and Base64 paths the size check is the stage right after
\* the acquisition and before the first probe, and no codec operation is
\* started on a buffer longer than MAX_IMAGE_SIZE; a buffer of exactly
\* MAX_IMAGE_SIZE bytes passes the check and one of one byte more is rejected
\* with the size error.
C23_SizeCheckedBeforeCodec ==
  \A c \in CallIds :
    call[c].kind \in {"file", "base64"} =>
      LET len == Len(call[c].acquired)
      IN  /\ (Ran(call[c], "Probe") \/ call[c].pc = "probe") =>
               /\ SubSeq(call[c].stages, 1, 2) = <<"Acquire", "Validate">>
               /\ ~GreaterThan(len, MAX_IMAGE_SIZE)
          /\ call[c].outcomes # <<>> => ~GreaterThan(len, MAX_IMAGE_SIZE)
          /\ (Ran(call[c], "Validate") /\ ~MAX_IMAGE_SIZE.nan) =>
               /\ len = MAX_IMAGE_SIZE.n =>
                    ~(Returned(call[c]) /\ LastStage(call[c]) = "Validate")
               /\ len = MAX_IMAGE_SIZE.n + 1 =>
                    /\ Returned(call[c]) /\ LastStage(call[c]) = "Validate"
                    /\ TextOf(call[c]) = SizeExceededText

\* under a ceiling of 6 bytes a 6-byte image was probed
C23_Witness ==
  \E c \in CallIds :
    /\ call[c].kind = "base64" /\ Ran(call[c], "Probe")
    /\ MAX_IMAGE_SIZE = Num(6)
    /\ Len(call[c].acquired) = 6

\* C24: when the resize has run, the metadata is probed again from the
\* resized buffer before the compression starts, and what the call uses of
\* the metadata afterwards (the width, height and format of the text item,
\* the format key of the compression on the Url and Base64 paths) is the
\* second probe's result.
C24_SecondProbeIsUsed ==
  \A c \in CallIds :
    call[c].resized =>
      /\ (Ran(call[c], "Compress") \/ call[c].pc = "compress") =>
           /\ Len(call[c].probes) = 2
           /\ call[c].probes[2] = SharpMetadata(PostResize(call[c]))
      /\ (Ran(call[c], "Compress") /\ call[c].kind \in {"url", "base64"}) =>
           call[c].format = call[c].probes[2].format
      /\ Succeeded(call[c]) =>
           /\ JsonValue(TextOf(call[c]), "width") = call[c].probes[2].width
           /\ JsonValue(TextOf(call[c]), "height") = call[c].probes[2].height
           /\ JsonValue(TextOf(call[c]), "format") = call[c].probes[2].format

\* an SVG body was resized into a PNG, and png is what the call went on with
C24_Witness ==
  \E c \in CallIds :
    /\ Succeeded(call[c]) /\ call[c].kind = "url" /\ call[c].resized
    /\ call[c].probes[1].format = "svg" /\ call[c].probes[2].format = "png"
    /\ call[c].format = "png"
    /\ JsonValue(TextOf(call[c]), "format") = "png"

\* C25: on the File path the mimeType is a total function of the lower-cased
\* extension: .png -> image/png, .jpg and .jpeg -> image/jpeg, .gif ->
\* image/gif, .webp -> image/webp, .svg -> image/svg+xml, .avif ->
\* image/avif, any other or no extension -> image/jpeg.
C25_FileMimeHintTable ==
  \A c \in CallIds :
    (call[c].kind = "file" /\ Succeeded(call[c])) =>
      /\ \E e \in MimeHintOfPath :
           e[1] = call[c].file_path /\ Content(call[c])[2].mimeType = e[2]
      /\ call[c].mimeType = Content(call[c])[2].mimeType

\* the upper-case extension .PNG gave image/png
C25_Witness ==
  \E c \in CallIds :
    /\ call[c].kind = "file" /\ Succeeded(call[c])
    /\ call[c].file_path = <<"a", ".", "P", "N", "G">>
    /\ Content(call[c])[2].mimeType = "image/png"

\* C26: when the probe resolves but reports no width or no height, the
\* resize and the re-probe are skipped, the compressor gets the acquired
\* buffer unchanged, and the call returns the two-item success response.
C26_MissingDimensionSkipsResize ==
  \A c \in CallIds :
    (Len(call[c].probes) >= 1 /\ NoDimension(call[c].probes[1])) =>
      /\ call[c].pc \notin {"resize", "reprobe"}
      /\ ~Ran(call[c], "Resize") /\ ~Ran(call[c], "ReProbe")
      /\ Len(call[c].probes) = 1
      /\ Ran(call[c], "Compress") => call[c].beforeCompress = call[c].acquired
      /\ Returned(call[c]) =>
           /\ IsSuccessForm(call[c].response)
           /\ ~call[c].caught

\* an image probed as 1024 wide with no height came back as a success
C26_Witness ==
  \E c \in CallIds :
    /\ Returned(call[c]) /\ IsSuccessForm(call[c].response)
    /\ call[c].probes[1].width = 1024 /\ call[c].probes[1].height = 0
    /\ JsonValue(TextOf(call[c]), "width") = 1024

\* C27: whatever the MAX_IMAGE_SIZE setting, a finite ceiling is in force: a
\* buffer acquired on the File or Base64 path that passes the size check is
\* no longer than a ceiling that is a number.
C27_FiniteCeilingInForce ==
  \A c \in CallIds :
    ( /\ call[c].kind \in {"file", "base64"}
      /\ Ran(call[c], "Validate")
      /\ ~(Returned(call[c]) /\ LastStage(call[c]) = "Validate") )
    => /\ ~MAX_IMAGE_SIZE.nan
       /\ Len(call[c].acquired) <= MAX_IMAGE_SIZE.n

\* C28: on the File path, when the compression succeeds with a re-encoding
\* codec (every extension but .gif and .svg), the mimeType of the image item
\* names the format the final buffer is encoded in.
C28_FileMimeNamesCodec ==
  \A c \in CallIds :
    ( /\ call[c].kind = "file" /\ Succeeded(call[c])
      /\ call[c].compression = "ok"
      /\ Str(ToLowerCase(ExtName(call[c].file_path))) \notin {".gif", ".svg"} )
    => Content(call[c])[2].mimeType
         = "image/" \o ImgFormat(FromBase64(DataOf(call[c])))

\* a WebP image in a file named a.avif came back as AVIF, labelled image/avif
C28_Witness ==
  \E c \in CallIds :
    /\ call[c].kind = "file" /\ Succeeded(call[c]) /\ call[c].compression = "ok"
    /\ call[c].file_path = <<"a", ".", "a", "v", "i", "f">>
    /\ ImgFormat(call[c].acquired) = "webp"
    /\ ImgFormat(FromBase64(DataOf(call[c]))) = "avif"
    /\ Content(call[c])[2].mimeType = "image/avif"

\* C29: on the Base64 path the checks run in the order empty decode, size
\* ceiling, probe, and the response reports the first that fails: a payload
\* that decodes to no byte is reported as an invalid base64 string, a
\* non-empty buffer over the ceiling as size exceeded, and a non-empty buffer
\* within the ceiling that the probe rejects as "Could not process image
\* data", never as an invalid base64 string.
C29_Base64FirstFailureReported ==
  \A c \in CallIds :
    (call[c].kind = "base64" /\ Returned(call[c])) =>
      LET decoded == FromBase64(call[c].base64)
          over == GreaterThan(Len(decoded), MAX_IMAGE_SIZE)
          text == TextOf(call[c])
      IN  /\ decoded = <<>> =>
               /\ IsError(call[c].response)
               /\ TextStartsWith(text, "Error: Invalid base64 string")
               /\ call[c].stages = <<"Acquire">>
          /\ (decoded # <<>> /\ over) =>
               /\ IsError(call[c].response)
               /\ text = SizeExceededText
               /\ call[c].stages = <<"Acquire", "Validate">>
          /\ (decoded # <<>> /\ ~over /\ call[c].probes = <<>>) =>
               /\ IsError(call[c].response)
               /\ TextStartsWith(text, "Error: Could not process image data - ")
               /\ ~TextStartsWith(text, "Error: Invalid base64 string")
               /\ call[c].stages = <<"Acquire", "Validate", "Probe">>

\* seven bytes the codec cannot read, within the ceiling
C29_Witness ==
  \E c \in CallIds :
    /\ call[c].kind = "base64" /\ Returned(call[c])
    /\ FromBase64(call[c].base64) = <<0, 1, 2, 3, 4, 5, 6>>
    /\ ~GreaterThan(7, MAX_IMAGE_SIZE)
    /\ TextOf(call[c]) = "Error: Could not process image data - "
                           \o "Input buffer contains unsupported image format"

\* C30: on the Base64 path, for an input probed with both dimensions at most
\* 512 and whose compression is rejected, no resize runs and the call
\* succeeds with an image item whose data decodes to exactly the bytes the
\* input payload decoded to.
C30_Base64RoundTrip ==
  \A c \in CallIds :
    ( /\ call[c].kind = "base64" /\ Returned(call[c])
      /\ Len(call[c].probes) >= 1
      /\ call[c].probes[1].width <= 512 /\ call[c].probes[1].height <= 512
      /\ call[c].compression = "failed" )
    => /\ ~call[c].resized /\ ~Ran(call[c], "Resize")
       /\ IsSuccessForm(call[c].response)
       /\ FromBase64(DataOf(call[c])) = FromBase64(call[c].base64)

\* a 400 x 300 image with a payload went through unchanged
C30_Witness ==
  \E c \in CallIds :
    /\ call[c].kind = "base64" /\ Succeeded(call[c])
    /\ call[c].compression = "failed"
    /\ FromBase64(call[c].base64) = MakeImage("png", 400, 300, <<170, 170>>)
    /\ FromBase64(DataOf(call[c])) = MakeImage("png", 400, 300, <<170, 170>>)

=============================================================================
